---- MODULE Spec2Model ----
(***************************************************************************)
(* Playback coordination of the InlineAudioPlayer component                *)
(* (src/components/InlineAudioPlayer.tsx).  Every rendered player widget   *)
(* shares the store field playingFileId (the slot); each widget owns its   *)
(* React state (isPlaying, currentTime, objectUrl), its <audio> element    *)
(* and the promises of its in-flight loads.                                *)
(*                                                                         *)
(* One action per event handler and promise continuation, and one for the  *)
(* flush of the passive effects of a render.  A handler sees the values of *)
(* the latest render.  React flushes the pending effects before it handles *)
(* a click or renders an unmount; promise continuations and media events   *)
(* may run between a render and the flush of its effects.                  *)
(* The outcome of a fetch and of audio.play() belongs to the network and   *)
(* to the playback engine: both are nondeterministic choices.              *)
(***************************************************************************)
EXTENDS Integers, Sequences, FiniteSets

\* The player widgets on the page, one per recording row.
Widgets == {"A", "B"}

\* The fileId prop of a widget (rows show distinct recordings).
fileId(w) == IF w = "A" THEN "file1" ELSE "file2"

\* The value of an empty slot and of an empty objectUrl / audio.src.
Null == "null"
NoUrl == 0

\* Bounds of the model.
MaxFetch == 2
MaxLoads == 2
Duration == 1

VARIABLES
    playingFileId,  \* the store's slot: a fileId or Null
    mounted,        \* mounted[w]: the widget is rendered
    isPlaying,      \* React state of the widget
    currentTime,    \* React state of the widget
    objectUrl,      \* React state of the widget: NoUrl or a handle
    effObjectUrl,   \* objectUrl captured by the committed cleanup effect
    syncPending,    \* deps of the sync effect changed since its last run
    resetPending,   \* deps of the reset effect changed since its last run
    audioPlaying,   \* the audio element is not paused
    audioSrc,       \* audio.src: NoUrl or a handle
    audioTime,      \* audio.currentTime
    fetching,       \* number of apiClient.get calls awaiting their result
    playPending,    \* handles whose audio.play() promise (fetch path) is pending
    cachedPending,  \* number of pending audio.play() promises of the cached path
    revoked,        \* revoked[w][u]: times handle u of widget w was revoked
    fetchCount,     \* number of fetches the widget issued
    failed,         \* a fetch or a playback start of the widget failed
    lastStop        \* the latest event of the widget, when it is a stop or a
                    \* restart: "pause" by its button, "preempting"
                    \* once another widget requested the slot it held while
                    \* Playing, "preempted" once its sync effect stopped it
                    \* after that request, "resumed" once play is requested
                    \* after a pause, "ended" once the media of the Playing
                    \* widget ended; "none" after any other event of it

vars == <<playingFileId, mounted, isPlaying, currentTime, objectUrl,
          effObjectUrl, syncPending, resetPending, audioPlaying, audioSrc,
          audioTime, fetching, playPending, cachedPending, revoked,
          fetchCount, failed, lastStop>>

audioVars == <<audioPlaying, audioSrc, audioTime>>
loadVars == <<fetching, playPending, cachedPending>>
histVars == <<fetchCount, failed>>


Init ==
    /\ playingFileId = Null
    /\ mounted = [w \in Widgets |-> TRUE]
    /\ isPlaying = [w \in Widgets |-> FALSE]
    /\ currentTime = [w \in Widgets |-> 0]
    /\ objectUrl = [w \in Widgets |-> NoUrl]
    /\ effObjectUrl = [w \in Widgets |-> NoUrl]
    /\ syncPending = [w \in Widgets |-> FALSE]
    /\ resetPending = [w \in Widgets |-> FALSE]
    /\ audioPlaying = [w \in Widgets |-> FALSE]
    /\ audioSrc = [w \in Widgets |-> NoUrl]
    /\ audioTime = [w \in Widgets |-> 0]
    /\ fetching = [w \in Widgets |-> 0]
    /\ playPending = [w \in Widgets |-> {}]
    /\ cachedPending = [w \in Widgets |-> 0]
    /\ revoked = [w \in Widgets |-> <<>>]
    /\ fetchCount = [w \in Widgets |-> 0]
    /\ failed = [w \in Widgets |-> FALSE]
    /\ lastStop = [w \in Widgets |-> "none"]

\* A state setter of an unmounted component does nothing.
SetState(f, w, v) == [f EXCEPT ![w] = IF mounted[w] THEN v ELSE @]

\* URL.revokeObjectURL(u) on a handle of widget w (counted up to 2).
revokeObjectURL(r, w, u) ==
    IF u = NoUrl THEN r
    ELSE [r EXCEPT ![w][u] = IF @ < 2 THEN @ + 1 ELSE @]

\* A render follows every state change; an effect is scheduled for each
\* widget whose dependencies differ from those of the previous render.
ScheduleEffects(ranSync, ranReset) ==
    /\ syncPending' = [w \in Widgets |->
          IF ~mounted'[w] THEN FALSE
          ELSE IF playingFileId' # playingFileId \/ isPlaying'[w] # isPlaying[w]
               THEN TRUE
          ELSE IF w \in ranSync THEN FALSE
          ELSE syncPending[w]]
    /\ resetPending' = [w \in Widgets |->
          IF ~mounted'[w] THEN FALSE
          ELSE IF isPlaying'[w] # isPlaying[w] \/ currentTime'[w] # currentTime[w]
               THEN TRUE
          ELSE IF w \in ranReset THEN FALSE
          ELSE resetPending[w]]

\* The sync effect stopping only for the fileId of another widget, not for
\* an empty slot.
SyncEffectStops_OnlyForeign(w) ==
    /\ mounted[w]
    /\ syncPending[w]
    /\ playingFileId \notin {fileId(w), Null}
    /\ isPlaying[w]

\* The sync effect with its comparison of playingFileId inverted.
SyncEffectStops_Inverted(w) ==
    /\ mounted[w]
    /\ syncPending[w]
    /\ playingFileId = fileId(w)
    /\ isPlaying[w]

\* Sync effect of widget w: if another file starts playing, stop this one.
SyncEffectStops(w) ==
    /\ mounted[w]
    /\ syncPending[w]
    /\ playingFileId # fileId(w)
    /\ isPlaying[w]

\* The reset effect with its test of isPlaying inverted.
ResetEffectResets_WhilePlaying(w) ==
    /\ mounted[w]
    /\ resetPending[w]
    /\ isPlaying[w]
    /\ currentTime[w] > 0

\* Reset effect of widget w: reset time when playback stops.
ResetEffectResets(w) ==
    /\ mounted[w]
    /\ resetPending[w]
    /\ ~isPlaying[w]
    /\ currentTime[w] > 0

\* objectUrl of widget w changed: the cleanup of the effect that captured
\* the previous objectUrl runs before the new effect is installed.
CleanupEffectRuns(w) ==
    /\ mounted[w]
    /\ objectUrl[w] # effObjectUrl[w]

\* Some effect of the last render has not run yet.
EffectsPending ==
    \E w \in Widgets :
        mounted[w] /\ (syncPending[w] \/ resetPending[w] \/ CleanupEffectRuns(w))

\* The sum of f over the set S.
RECURSIVE Sum(_, _)
Sum(f, S) ==
    IF S = {} THEN 0
    ELSE LET x == CHOOSE x \in S : TRUE IN f[x] + Sum(f, S \ {x})

\* Loads in flight and fetches issued, over all widgets.
InFlight ==
    Sum([w \in Widgets |->
            cachedPending[w] + Cardinality(playPending[w]) + fetching[w]],
        Widgets)

Fetched == Sum(fetchCount, Widgets)

\* loadAndPlayAudio without its use of the cached objectUrl.
loadAndPlayAudio_NoCache(w) ==
    /\ InFlight < MaxLoads
    /\ Fetched < MaxFetch
    /\ fetching' = [fetching EXCEPT ![w] = @ + 1]
    /\ fetchCount' = [fetchCount EXCEPT ![w] = @ + 1]
    /\ UNCHANGED <<cachedPending, playPending, audioVars>>

\* loadAndPlayAudio up to its first suspension point.
loadAndPlayAudio(w) ==
    IF objectUrl[w] # NoUrl
    THEN /\ InFlight < MaxLoads
         /\ audioPlaying' = [audioPlaying EXCEPT ![w] = TRUE]
         /\ cachedPending' = [cachedPending EXCEPT ![w] = @ + 1]
         /\ UNCHANGED <<fetching, playPending, fetchCount, audioSrc, audioTime>>
    ELSE /\ InFlight < MaxLoads
         /\ Fetched < MaxFetch
         /\ fetching' = [fetching EXCEPT ![w] = @ + 1]
         /\ fetchCount' = [fetchCount EXCEPT ![w] = @ + 1]
         /\ UNCHANGED <<cachedPending, playPending, audioVars>>

\* The slot after widget w released it without looking at its holder.
releaseSlot_Unguarded(w) == Null

\* The slot after a release by widget w that never clears it.
releaseSlot_Never(w) == playingFileId

\* The slot after widget w released it: cleared only if it holds w's fileId.
releaseSlot(w) ==
    IF playingFileId = fileId(w) THEN Null ELSE playingFileId

\* The slot after a request by widget w that another holder can refuse.
requestSlot_Refusable(w) ==
    IF playingFileId \in {Null, fileId(w)} THEN fileId(w) ELSE playingFileId

\* The slot after widget w requested it: setPlayingFileId(fileId).
requestSlot(w) == fileId(w)

\* Click on the play/pause button.
handlePlayPause(w) ==
    /\ mounted[w]
    /\ ~EffectsPending
    /\ IF isPlaying[w]
       THEN /\ audioPlaying' = [audioPlaying EXCEPT ![w] = FALSE]
            /\ isPlaying' = SetState(isPlaying, w, FALSE)
            /\ playingFileId' = releaseSlot(w)
            /\ UNCHANGED <<audioSrc, audioTime, loadVars, fetchCount>>
       ELSE /\ playingFileId' = requestSlot(w)
            /\ loadAndPlayAudio(w)
            /\ UNCHANGED isPlaying
    /\ lastStop' = [v \in Widgets |->
          IF v = w THEN (IF isPlaying[w] THEN "pause"
                         ELSE IF lastStop[w] = "pause" THEN "resumed"
                         ELSE "none")
          ELSE IF ~isPlaying[w] /\ isPlaying[v] /\ playingFileId = fileId(v)
               THEN "preempting"
          ELSE lastStop[v]]
    /\ UNCHANGED <<mounted, currentTime, objectUrl, effObjectUrl, revoked, failed>>
    /\ ScheduleEffects({}, {})

\* The awaited apiClient.get resolves: the rest of the try block.
FetchResolve(w) ==
    /\ fetching[w] > 0
    /\ LET url == Len(revoked[w]) + 1 IN
        /\ fetching' = [fetching EXCEPT ![w] = @ - 1]
        /\ revoked' = [revoked EXCEPT ![w] = Append(@, 0)]
        /\ objectUrl' = SetState(objectUrl, w, url)
        /\ audioSrc' = [audioSrc EXCEPT ![w] = url]
        /\ audioTime' = [audioTime EXCEPT ![w] = 0]
        /\ audioPlaying' = [audioPlaying EXCEPT ![w] = TRUE]
        /\ playPending' = [playPending EXCEPT ![w] = @ \cup {url}]
    /\ UNCHANGED <<playingFileId, mounted, isPlaying, currentTime, effObjectUrl,
                   cachedPending, histVars>>
    /\ lastStop' = [lastStop EXCEPT ![w] = "none"]
    /\ ScheduleEffects({}, {})

\* The fetch fails and the catch block leaves the slot as it is.
FetchReject_KeepsSlot(w) ==
    /\ fetching[w] > 0
    /\ fetching' = [fetching EXCEPT ![w] = @ - 1]
    /\ isPlaying' = SetState(isPlaying, w, FALSE)
    /\ failed' = [failed EXCEPT ![w] = TRUE]
    /\ UNCHANGED <<playingFileId, mounted, currentTime, objectUrl,
                   effObjectUrl, audioVars, playPending, cachedPending,
                   revoked, fetchCount>>
    /\ lastStop' = [lastStop EXCEPT ![w] = "none"]
    /\ ScheduleEffects({}, {})

\* The awaited apiClient.get rejects: the catch block of the try.
FetchReject(w) ==
    /\ fetching[w] > 0
    /\ fetching' = [fetching EXCEPT ![w] = @ - 1]
    /\ isPlaying' = SetState(isPlaying, w, FALSE)
    /\ playingFileId' = Null
    /\ failed' = [failed EXCEPT ![w] = TRUE]
    /\ UNCHANGED <<mounted, currentTime, objectUrl, effObjectUrl, audioVars,
                   playPending, cachedPending, revoked, fetchCount>>
    /\ lastStop' = [lastStop EXCEPT ![w] = "none"]
    /\ ScheduleEffects({}, {})

\* The play promise of the fetch path resolves.
PlayResolve(w, url) ==
    /\ url \in playPending[w]
    /\ playPending' = [playPending EXCEPT ![w] = @ \ {url}]
    /\ isPlaying' = SetState(isPlaying, w, TRUE)
    /\ UNCHANGED <<playingFileId, mounted, currentTime, objectUrl, effObjectUrl,
                   audioVars, fetching, cachedPending, revoked, histVars>>
    /\ lastStop' = [lastStop EXCEPT ![w] = "none"]
    /\ ScheduleEffects({}, {})

\* The play promise of the fetch path rejects.
PlayReject(w, url) ==
    /\ url \in playPending[w]
    /\ playPending' = [playPending EXCEPT ![w] = @ \ {url}]
    /\ audioPlaying' = [audioPlaying EXCEPT ![w] = IF audioSrc[w] = url THEN FALSE ELSE @]
    /\ isPlaying' = SetState(isPlaying, w, FALSE)
    /\ playingFileId' = Null
    /\ revoked' = revokeObjectURL(revoked, w, url)
    /\ objectUrl' = SetState(objectUrl, w, NoUrl)
    /\ failed' = [failed EXCEPT ![w] = TRUE]
    /\ UNCHANGED <<mounted, currentTime, effObjectUrl, audioSrc, audioTime,
                   fetching, cachedPending, fetchCount>>
    /\ lastStop' = [lastStop EXCEPT ![w] = "none"]
    /\ ScheduleEffects({}, {})

\* The play promise of the cached path resolves.
CachedPlayResolve(w) ==
    /\ cachedPending[w] > 0
    /\ cachedPending' = [cachedPending EXCEPT ![w] = @ - 1]
    /\ isPlaying' = SetState(isPlaying, w, TRUE)
    /\ UNCHANGED <<playingFileId, mounted, currentTime, objectUrl, effObjectUrl,
                   audioVars, fetching, playPending, revoked, histVars>>
    /\ lastStop' = [lastStop EXCEPT ![w] = "none"]
    /\ ScheduleEffects({}, {})

\* The play promise of the cached path rejects.
CachedPlayReject(w) ==
    /\ cachedPending[w] > 0
    /\ cachedPending' = [cachedPending EXCEPT ![w] = @ - 1]
    /\ audioPlaying' = [audioPlaying EXCEPT ![w] = FALSE]
    /\ isPlaying' = SetState(isPlaying, w, FALSE)
    /\ playingFileId' = Null
    /\ failed' = [failed EXCEPT ![w] = TRUE]
    /\ UNCHANGED <<mounted, currentTime, objectUrl, effObjectUrl, audioSrc,
                   audioTime, fetching, playPending, revoked, fetchCount>>
    /\ lastStop' = [lastStop EXCEPT ![w] = "none"]
    /\ ScheduleEffects({}, {})

\* The flush of the effects with a sync effect that empties the slot when
\* it stops its widget.
RunEffects_ReleasesSlot ==
    /\ EffectsPending
    /\ isPlaying' = [w \in Widgets |->
          IF SyncEffectStops(w) THEN FALSE ELSE isPlaying[w]]
    /\ audioPlaying' = [w \in Widgets |->
          IF SyncEffectStops(w) THEN FALSE ELSE audioPlaying[w]]
    /\ currentTime' = [w \in Widgets |->
          IF ResetEffectResets(w) THEN 0 ELSE currentTime[w]]
    /\ audioTime' = [w \in Widgets |->
          IF ResetEffectResets(w) THEN 0 ELSE audioTime[w]]
    /\ revoked' = [w \in Widgets |->
          IF CleanupEffectRuns(w)
          THEN revokeObjectURL(revoked, w, effObjectUrl[w])[w]
          ELSE revoked[w]]
    /\ effObjectUrl' = [w \in Widgets |->
          IF CleanupEffectRuns(w) THEN objectUrl[w] ELSE effObjectUrl[w]]
    /\ lastStop' = [w \in Widgets |->
          IF SyncEffectStops(w) /\ lastStop[w] = "preempting" THEN "preempted"
          ELSE lastStop[w]]
    /\ playingFileId' = IF \E w \in Widgets : SyncEffectStops(w) THEN Null
                        ELSE playingFileId
    /\ UNCHANGED <<mounted, objectUrl, audioSrc, loadVars, histVars>>
    /\ ScheduleEffects(Widgets, Widgets)

\* One flush of the passive effects of the last render: the scheduled effects
\* of every widget run in one task, each on the values of that render.
RunEffects ==
    /\ EffectsPending
    /\ isPlaying' = [w \in Widgets |->
          IF SyncEffectStops(w) THEN FALSE ELSE isPlaying[w]]
    /\ audioPlaying' = [w \in Widgets |->
          IF SyncEffectStops(w) THEN FALSE ELSE audioPlaying[w]]
    /\ currentTime' = [w \in Widgets |->
          IF ResetEffectResets(w) THEN 0 ELSE currentTime[w]]
    /\ audioTime' = [w \in Widgets |->
          IF ResetEffectResets(w) THEN 0 ELSE audioTime[w]]
    /\ revoked' = [w \in Widgets |->
          IF CleanupEffectRuns(w)
          THEN revokeObjectURL(revoked, w, effObjectUrl[w])[w]
          ELSE revoked[w]]
    /\ effObjectUrl' = [w \in Widgets |->
          IF CleanupEffectRuns(w) THEN objectUrl[w] ELSE effObjectUrl[w]]
    /\ lastStop' = [w \in Widgets |->
          IF SyncEffectStops(w) /\ lastStop[w] = "preempting" THEN "preempted"
          ELSE lastStop[w]]
    /\ UNCHANGED <<playingFileId, mounted, objectUrl, audioSrc, loadVars, histVars>>
    /\ ScheduleEffects(Widgets, Widgets)

\* The widget is removed: its effect cleanups run, its state is dropped and
\* the audio element leaves the document (which pauses it).
Unmount(w) ==
    /\ mounted[w]
    /\ ~EffectsPending
    /\ mounted' = [mounted EXCEPT ![w] = FALSE]
    /\ revoked' = revokeObjectURL(revoked, w, effObjectUrl[w])
    /\ isPlaying' = [isPlaying EXCEPT ![w] = FALSE]
    /\ currentTime' = [currentTime EXCEPT ![w] = 0]
    /\ objectUrl' = [objectUrl EXCEPT ![w] = NoUrl]
    /\ effObjectUrl' = [effObjectUrl EXCEPT ![w] = NoUrl]
    /\ audioPlaying' = [audioPlaying EXCEPT ![w] = FALSE]
    /\ lastStop' = [lastStop EXCEPT ![w] = "none"]
    /\ UNCHANGED <<playingFileId, audioSrc, audioTime, loadVars, histVars>>
    /\ ScheduleEffects({}, {})

\* onTimeUpdate / onLoadedMetadata: the playback engine reports the position
\* of the element, one step further when the element is playing.
handleTimeUpdate(w) ==
    /\ audioSrc[w] # NoUrl
    /\ \E t \in {audioTime[w], audioTime[w] + 1} :
        /\ t # audioTime[w] => audioPlaying[w] /\ t <= Duration
        /\ t # audioTime[w] \/ (mounted[w] /\ currentTime[w] # t)
        /\ audioTime' = [audioTime EXCEPT ![w] = t]
        /\ currentTime' = SetState(currentTime, w, t)
    /\ UNCHANGED <<playingFileId, mounted, isPlaying, objectUrl, effObjectUrl,
                   audioPlaying, audioSrc, loadVars, revoked, histVars>>
    /\ lastStop' = [lastStop EXCEPT ![w] = "none"]
    /\ ScheduleEffects({}, {})

\* The positions a user can ask the slider for, beyond both of its ends.
SeekRequests == (0 - 1)..(Duration + 1)

\* The range input without its max attribute.
RangeValue_NoMax(t) == IF t < 0 THEN 0 ELSE t

\* The value the range input (min 0, max duration) delivers for a request.
RangeValue(t) == IF t < 0 THEN 0 ELSE IF t > Duration THEN Duration ELSE t

\* handleSeek with a stop of the playback added.
handleSeek_Stops(w, t) ==
    /\ mounted[w]
    /\ ~EffectsPending
    /\ RangeValue(t) # currentTime[w]
    /\ audioTime' = [audioTime EXCEPT ![w] = RangeValue(t)]
    /\ currentTime' = SetState(currentTime, w, RangeValue(t))
    /\ isPlaying' = SetState(isPlaying, w, FALSE)
    /\ lastStop' = [lastStop EXCEPT ![w] = "none"]
    /\ UNCHANGED <<playingFileId, mounted, objectUrl, effObjectUrl,
                   audioPlaying, audioSrc, loadVars, revoked, histVars>>
    /\ ScheduleEffects({}, {})

\* onChange of the range input: the user moves the slider to position t.
\* The input is controlled by currentTime and fires only when its value
\* changes.
handleSeek(w, t) ==
    /\ mounted[w]
    /\ ~EffectsPending
    /\ RangeValue(t) # currentTime[w]
    /\ audioTime' = [audioTime EXCEPT ![w] = RangeValue(t)]
    /\ currentTime' = SetState(currentTime, w, RangeValue(t))
    /\ lastStop' = [lastStop EXCEPT ![w] = "none"]
    /\ UNCHANGED <<playingFileId, mounted, isPlaying, objectUrl, effObjectUrl,
                   audioPlaying, audioSrc, loadVars, revoked, histVars>>
    /\ ScheduleEffects({}, {})

\* The media reaches its end: the element stops and onEnded fires.
handleAudioEnded(w) ==
    /\ audioPlaying[w]
    /\ audioSrc[w] # NoUrl
    /\ audioTime[w] = Duration
    /\ audioPlaying' = [audioPlaying EXCEPT ![w] = FALSE]
    /\ isPlaying' = SetState(isPlaying, w, FALSE)
    /\ playingFileId' = IF mounted[w] THEN releaseSlot(w) ELSE playingFileId
    /\ UNCHANGED <<mounted, currentTime, objectUrl, effObjectUrl, audioSrc,
                   audioTime, loadVars, revoked, histVars>>
    /\ lastStop' = [lastStop EXCEPT ![w] =
          IF mounted[w] /\ isPlaying[w] THEN "ended" ELSE "none"]
    /\ ScheduleEffects({}, {})

Next ==
    \/ RunEffects
    \/ \E w \in Widgets :
        \/ handlePlayPause(w)
        \/ FetchResolve(w)
        \/ FetchReject(w)
        \/ \E url \in 1..MaxFetch : PlayResolve(w, url)
        \/ \E url \in 1..MaxFetch : PlayReject(w, url)
        \/ CachedPlayResolve(w)
        \/ CachedPlayReject(w)
        \/ Unmount(w)
        \/ handleTimeUpdate(w)
        \/ \E t \in SeekRequests : handleSeek(w, t)
        \/ handleAudioEnded(w)

Spec == Init /\ [][Next]_vars

\* What the runtime does without the user: React runs the passive effects
\* of a committed render, the promises of the fetch and of audio.play()
\* settle and their continuations run, and a running audio element advances
\* and ends. Clicks, seeks and unmounts are the user's and are not forced.
FairSpec ==
    /\ Spec
    /\ WF_vars(RunEffects)
    /\ \A w \in Widgets :
          /\ WF_vars(FetchResolve(w) \/ FetchReject(w))
          /\ WF_vars(\E url \in 1..MaxFetch :
                        PlayResolve(w, url) \/ PlayReject(w, url))
          /\ WF_vars(CachedPlayResolve(w) \/ CachedPlayReject(w))
          /\ WF_vars(handleTimeUpdate(w) /\ audioTime'[w] > audioTime[w])
          /\ WF_vars(handleAudioEnded(w))

(***************************************************************************)
(* Properties                                                              *)
(***************************************************************************)

\* The steps by which widget w reports an error: the catch block of the
\* fetch and the catch handlers of the two play promises.
ErrorOf(w) ==
    \/ FetchReject(w)
    \/ CachedPlayReject(w)
    \/ \E url \in 1..MaxFetch : PlayReject(w, url)

\* The steps by which widget w gives the slot back.
ReleaseBy(w) ==
    \/ handlePlayPause(w) /\ isPlaying[w]
    \/ handleAudioEnded(w)
    \/ ErrorOf(w)

\* The step in which widget w issues its fetch or calls audio.play().
StartsLoadOrPlay(w) ==
    \/ fetching'[w] > fetching[w]
    \/ cachedPending'[w] > cachedPending[w]
    \/ playPending'[w] # playPending[w] /\ playPending[w] \subseteq playPending'[w]

\* No load of widget w is in flight.
Settled(w) ==
    fetching[w] = 0 /\ playPending[w] = {} /\ cachedPending[w] = 0

\* C1 -- Mutual exclusion: in every reachable state at most one widget has
\* isPlaying = TRUE.
C1_MutualExclusion ==
    Cardinality({w \in Widgets : isPlaying[w]}) <= 1

\* C2 -- Stale-result safety: when the fetch of a widget resolves while the
\* slot holds another widget's fileId, no playback is started on the widget's
\* audio element, the handle made from the fetch is revoked and the slot is
\* left as it is.
C2_StaleResultSafety ==
    [][\A w \in Widgets :
          (FetchResolve(w) /\ mounted[w]
              /\ playingFileId \in {fileId(v) : v \in Widgets \ {w}})
          => /\ ~audioPlaying'[w]
             /\ playPending'[w] = playPending[w]
             /\ revoked'[w][Len(revoked'[w])] >= 1
             /\ playingFileId' = playingFileId]_vars

\* C3 -- Guarded release: a step by which a widget releases the slot leaves
\* the slot alone when it does not hold that widget's fileId.
C3_GuardedRelease ==
    [][\A w \in Widgets :
          (ReleaseBy(w) /\ playingFileId # fileId(w))
          => playingFileId' = playingFileId]_vars

\* C4 -- Error isolation: an error of widget a changes neither the status,
\* the currentTime nor the playback of another widget b, and a widget b that
\* is Playing as the slot holder is not stopped by the effects the error
\* schedules.
C4_ErrorIsolation ==
    [][\A a \in Widgets : \A b \in Widgets \ {a} :
          (ErrorOf(a) /\ isPlaying[b] /\ playingFileId = fileId(b))
          => /\ isPlaying'[b]
             /\ currentTime'[b] = currentTime[b]
             /\ audioPlaying'[b] = audioPlaying[b]
             /\ ~(playingFileId' # fileId(b) /\ isPlaying'[b]
                  /\ syncPending'[b])]_vars

\* C5 -- Teardown safety: after a widget is unmounted no play call is made on
\* its audio element, and once its loads have settled every handle it
\* created has been revoked.
C5_TeardownSafety ==
    [][\A w \in Widgets :
          ~mounted[w]
          => /\ audioPlaying'[w] => audioPlaying[w]
             /\ (fetching'[w] = 0 /\ playPending'[w] = {} /\ cachedPending'[w] = 0)
                => \A u \in DOMAIN revoked'[w] : revoked'[w][u] >= 1]_vars

\* C6 -- Teardown releases the slot: the slot never holds the fileId of an
\* unmounted widget.
C6_TeardownReleasesSlot ==
    \A w \in Widgets : ~mounted[w] => playingFileId # fileId(w)

\* C7 -- Single revocation: every handle is revoked at most once.
C7_SingleRevocation ==
    \A w \in Widgets : \A u \in DOMAIN revoked[w] : revoked[w][u] <= 1

\* C8 -- Notification ordering: in the step in which a widget issues its
\* fetch or its audio.play() while another widget is Playing, that other
\* widget is stopped: its status is no longer Playing and its audio element
\* is paused.
C8_NotificationOrdering ==
    [][\A w \in Widgets : \A v \in Widgets \ {w} :
          (handlePlayPause(w) /\ StartsLoadOrPlay(w) /\ isPlaying[v])
          => ~isPlaying'[v] /\ ~audioPlaying'[v]]_vars

\* The step in which a play promise of widget w resolves.
PlayResolved(w) ==
    \/ CachedPlayResolve(w)
    \/ \E url \in 1..MaxFetch : PlayResolve(w, url)

\* C9 -- Preemption correctness: when the play of widget b resolves while b
\* holds the slot, b is Playing and still holds the slot; running the
\* pending effects leaves b Playing as the holder; and once no effect is
\* pending every other widget is stopped with currentTime = 0.
C9_PreemptionCorrectness ==
    [][\A b \in Widgets : \A a \in Widgets \ {b} :
          /\ (mounted[b] /\ playingFileId = fileId(b)
                 /\ (PlayResolved(b) \/ (RunEffects /\ isPlaying[b])))
             => (isPlaying'[b] /\ playingFileId' = fileId(b))
          /\ (isPlaying'[b] /\ playingFileId' = fileId(b) /\ ~EffectsPending')
             => (~isPlaying'[a] /\ currentTime'[a] = 0)]_vars

\* Widget A was Playing, widget B took the slot and is Playing, the sync
\* effect has stopped A and no effect is pending.
C9_Witness ==
    /\ lastStop["A"] = "preempted" /\ ~isPlaying["A"] /\ currentTime["A"] = 0
    /\ isPlaying["B"] /\ playingFileId = fileId("B")
    /\ ~EffectsPending

\* C10 -- Cache reuse: a play request on a widget that has fetched, whose
\* loads have all succeeded and settled, issues no fetch and starts playback
\* on the cached handle.
C10_CacheReuse ==
    [][\A w \in Widgets :
          (handlePlayPause(w) /\ ~isPlaying[w]
              /\ fetchCount[w] >= 1 /\ ~failed[w] /\ Settled(w))
          => /\ fetchCount'[w] = fetchCount[w]
             /\ fetching'[w] = 0
             /\ cachedPending'[w] = 1
             /\ audioPlaying'[w]
             /\ objectUrl[w] # NoUrl
             /\ audioSrc'[w] = objectUrl[w]]_vars

\* Widget A fetched once, played, was paused by the user and is starting
\* again from its cached handle.
C10_Witness ==
    /\ fetchCount["A"] = 1 /\ ~failed["A"] /\ lastStop["A"] = "resumed"
    /\ cachedPending["A"] = 1 /\ fetching["A"] = 0 /\ playPending["A"] = {}
    /\ audioPlaying["A"] /\ audioSrc["A"] = objectUrl["A"]

\* C11 -- Fetch at most once: a widget none of whose fetches or playback
\* starts has failed has issued at most one fetch, a second play request
\* made while the first fetch is in flight included.
C11_FetchAtMostOnce ==
    \A w \in Widgets : ~failed[w] => fetchCount[w] <= 1

\* C12 -- Error releases the slot: when a fetch or a playback start of a
\* mounted widget that holds the slot fails, the widget is not Playing after
\* the error handler and the slot no longer holds its fileId.
C12_ErrorReleasesSlot ==
    [][\A w \in Widgets :
          (mounted[w] /\ playingFileId = fileId(w) /\ ErrorOf(w))
          => (~isPlaying'[w] /\ playingFileId' # fileId(w))]_vars

\* Widget A alone requested the slot, its only fetch failed, and it is
\* stopped with the slot empty.
C12_Witness ==
    /\ failed["A"] /\ fetchCount["A"] = 1 /\ fetchCount["B"] = 0
    /\ Settled("A") /\ audioSrc["A"] = NoUrl /\ objectUrl["A"] = NoUrl
    /\ ~isPlaying["A"] /\ playingFileId = Null

\* C13 -- End of media: when the media of a mounted Playing widget ends, the
\* widget is Stopped, the slot is cleared if it held the widget's fileId and
\* is left as it was otherwise, and currentTime is 0 or the reset effect is
\* due; the reset effect of a stopped widget sets currentTime to 0.
C13_EndOfMedia ==
    [][\A w \in Widgets :
          /\ (mounted[w] /\ isPlaying[w] /\ handleAudioEnded(w))
             => /\ ~isPlaying'[w]
                /\ ~audioPlaying'[w]
                /\ playingFileId' = (IF playingFileId = fileId(w) THEN Null
                                     ELSE playingFileId)
                /\ currentTime'[w] = 0 \/ (resetPending'[w] /\ mounted'[w])
          /\ (mounted[w] /\ resetPending[w] /\ ~isPlaying[w] /\ RunEffects)
             => currentTime'[w] = 0]_vars

\* The media of Playing widget A, holder of the slot, ended: A is stopped,
\* the slot is empty, and the reset effect has put both times back to 0.
C13_Witness ==
    /\ lastStop["A"] = "ended" /\ ~isPlaying["A"] /\ ~audioPlaying["A"]
    /\ currentTime["A"] = 0 /\ audioTime["A"] = 0
    /\ playingFileId = Null /\ ~EffectsPending

\* C14 -- Pause is slot-releasing: a click on the button of a Playing widget
\* pauses the element, makes the widget Stopped, clears the slot when it
\* holds the widget's fileId, and leaves currentTime 0 or the reset effect
\* due; a play request of another widget then finds the slot empty.
C14_PauseReleasesSlot ==
    [][\A w \in Widgets :
          (isPlaying[w] /\ handlePlayPause(w))
          => /\ ~audioPlaying'[w]
             /\ ~isPlaying'[w]
             /\ playingFileId = fileId(w) => playingFileId' = Null
             /\ playingFileId # fileId(w) => playingFileId' = playingFileId
             /\ currentTime'[w] = 0 \/ (resetPending'[w] /\ mounted'[w])]_vars

\* Widget A was paused by its button while it held the slot, its time is
\* back to 0, and widget B then requested the empty slot.
C14_Witness ==
    /\ lastStop["A"] = "pause" /\ ~isPlaying["A"] /\ ~audioPlaying["A"]
    /\ currentTime["A"] = 0
    /\ lastStop["B"] = "none" /\ playingFileId = fileId("B")
    /\ fetching["B"] = 1 /\ ~EffectsPending

C16_AcquisitionSucceeds ==
    [][\A w \in Widgets :
          (~isPlaying[w] /\ handlePlayPause(w))
          => playingFileId' = fileId(w)]_vars

\* Widget A requested the slot that Playing widget B held, and holds it.
C16_Witness ==
    /\ lastStop["B"] = "preempting" /\ isPlaying["B"]
    /\ ~isPlaying["A"] /\ fetching["A"] = 1
    /\ playingFileId = fileId("A")

\* C17 -- Failures are not cached: after a fetch of a mounted widget fails,
\* or the playback start on its freshly fetched handle is rejected, the
\* widget has no cached handle, so that its next play request fetches.
C17_FailuresNotCached ==
    [][\A w \in Widgets :
          (mounted[w] /\ (FetchReject(w)
                             \/ \E url \in 1..MaxFetch : PlayReject(w, url)))
          => objectUrl'[w] = NoUrl]_vars

\* C18 -- Slot/holder agreement: in every reachable state a Playing widget
\* and a non-empty slot agree, the slot holding that widget's fileId.
C18_SlotHolderAgreement ==
    \A w \in Widgets :
        (isPlaying[w] /\ playingFileId # Null) => playingFileId = fileId(w)

\* C19 -- Forced stop on preemption: when the sync effect of a Playing
\* widget runs while the slot holds something else than its fileId, the
\* widget is Stopped and its currentTime is 0 or about to be reset; and a
\* playback start that resolves while the slot holds another widget's
\* fileId does not make the widget Playing.
C19_ForcedStopOnPreemption ==
    [][\A w \in Widgets :
          /\ (RunEffects /\ mounted[w] /\ isPlaying[w] /\ syncPending[w]
                 /\ playingFileId # fileId(w))
             => /\ ~isPlaying'[w]
                /\ currentTime'[w] = 0 \/ resetPending'[w]
          /\ (PlayResolved(w) /\ mounted[w]
                 /\ playingFileId \in {fileId(v) : v \in Widgets \ {w}})
             => ~isPlaying'[w]]_vars

\* C20 -- Seek has no effect on status or slot: a seek on widget w leaves
\* its isPlaying, its cached handle and its element's source and running
\* state, the slot holder, and everything of every other widget unchanged.
C20_SeekFrame ==
    [][\A w \in Widgets : \A t \in SeekRequests :
          handleSeek(w, t)
          => /\ isPlaying' = isPlaying
             /\ objectUrl' = objectUrl
             /\ playingFileId' = playingFileId
             /\ audioPlaying' = audioPlaying
             /\ audioSrc' = audioSrc
             /\ <<mounted, loadVars, revoked>>' = <<mounted, loadVars, revoked>>
             /\ \A v \in Widgets \ {w} :
                   /\ currentTime'[v] = currentTime[v]
                   /\ audioTime'[v] = audioTime[v]]_vars

\* While widget B is Playing as the holder of the slot, the slider of
\* widget A, which has never loaded, was moved: B is still Playing as the
\* holder and A is stopped with nothing cached. No sync effect is due, so
\* B was Playing before the seek, whose reset effect has not run yet.
C20_Witness ==
    /\ mounted["A"] /\ audioSrc["A"] = NoUrl /\ currentTime["A"] > 0
    /\ ~isPlaying["A"] /\ objectUrl["A"] = NoUrl /\ ~audioPlaying["A"]
    /\ isPlaying["B"] /\ audioPlaying["B"] /\ playingFileId = fileId("B")
    /\ resetPending["A"] /\ ~syncPending["A"] /\ ~syncPending["B"]

\* C21 -- Quiescent mutual exclusion: in every state where no sync effect is
\* pending, every Playing widget's fileId is the slot's value, so that at
\* most one widget is Playing.
C21_QuiescentMutualExclusion ==
    (\A w \in Widgets : ~syncPending[w])
    => /\ \A w \in Widgets : isPlaying[w] => playingFileId = fileId(w)
       /\ Cardinality({w \in Widgets : isPlaying[w]}) <= 1

\* No sync effect is pending, widget A is Playing as the holder, and widget
\* B, which was Playing when A requested the slot, has been stopped by its
\* sync effect.
C21_Witness ==
    /\ \A w \in Widgets : ~syncPending[w]
    /\ isPlaying["A"] /\ playingFileId = fileId("A")
    /\ mounted["B"] /\ lastStop["B"] = "preempted" /\ ~isPlaying["B"]
    /\ ~audioPlaying["B"]

\* C22 -- No use after revoke: in every reachable state the handle assigned
\* to the audio element of a Playing widget has not been revoked, overlapping
\* loads of one widget included.
C22_NoUseAfterRevoke ==
    \A w \in Widgets :
        (mounted[w] /\ isPlaying[w] /\ audioSrc[w] # NoUrl)
        => revoked[w][audioSrc[w]] = 0

C24_ForcedStopFrame ==
    [][\A w \in Widgets :
          (SyncEffectStops(w) /\ RunEffects)
          => /\ playingFileId' = playingFileId
             /\ objectUrl' = objectUrl
             /\ audioSrc' = audioSrc
             /\ <<mounted, loadVars>>' = <<mounted, loadVars>>
             /\ ~isPlaying'[w] /\ ~audioPlaying'[w]
             /\ \A v \in Widgets \ {w} :
                   ~SyncEffectStops(v)
                   => /\ isPlaying'[v] = isPlaying[v]
                      /\ audioPlaying'[v] = audioPlaying[v]]_vars

\* The sync effect has just stopped widget A, which was Playing when B
\* requested the slot: the slot still holds B's fileId, A's handle is still
\* cached, and A's currentTime is not reset yet.
C24_Witness ==
    /\ lastStop["A"] = "preempted" /\ ~isPlaying["A"] /\ ~audioPlaying["A"]
    /\ syncPending["A"] /\ resetPending["A"] /\ currentTime["A"] > 0
    /\ playingFileId = fileId("B")
    /\ objectUrl["A"] # NoUrl /\ audioSrc["A"] = objectUrl["A"]
====
